---- MODULE Spec2Model ----
(***************************************************************************)
(* Model of fvtt-terrain-mapper, scripts/Terrain.js and scripts/settings.js *)
(*                                                                         *)
(*   Spec          the TerrainMap identifier map (set / add / delete /      *)
(*                 clear and the private #findNextId).                      *)
(*   SpecIO        the replace-all flow of class Terrain (replaceFromJSON   *)
(*                 and replaceFromJSONDialog) against the external store.   *)
(*   SpecFlows     SpecIO with the additive import and the per-terrain      *)
(*                 import, direct and through their dialogs.                *)
(*   SpecEntity    a Terrain: flag-backed accessors, elevationMinMax,       *)
(*                 toJSON and updateSource.                                 *)
(*   SpecSettings  the expanded-folders methods of TerrainSettings.         *)
(***************************************************************************)
EXTENDS Integers, Sequences, FiniteSets, TLC

VARIABLES
    map,        \* TerrainMap entries (the inherited Map): key -> terrain
    nextId,     \* TerrainMap.#nextId
    last,       \* the last TerrainMap call: what it returned and logged
    released,   \* history: the id the last call deleted, the pointer before it
    run,        \* history: adds made since the map was fresh or cleared, and
                \* the pointer clear found
    collection, \* effects held by TerrainSettings.terrainEffectsItem
    files,      \* form.data.files of the dialog when Import was pressed
    json,       \* argument of the running Terrain.replaceFromJSON call
    pre,        \* history: collection when the running operation started
    directPc,   \* position of a direct call of Terrain.replaceFromJSON
    dialogPc,   \* position of Terrain.replaceFromJSONDialog
    chain,      \* the detached promise readTextFromFile(..).then(replaceFromJSON)
    rendered,   \* what TerrainEffectsApp.rerender last displayed
    notified,   \* ui.notifications.error was shown by the running dialog
    flow,       \* which operation the running call belongs to
    flags,      \* module flags of a Terrain's activeEffect: key -> value
    write,      \* the activeEffect.setFlag update in flight, if any
    call,       \* the last call made on the Terrain and what its caller got
    expandedFolders,  \* the stored expanded-folders setting
    settingUpdate,    \* the update of the setting in flight, if any
    promise           \* the promise the last TerrainSettings call returned

mapVars == <<map, nextId, last, released, run>>
ioVars  == <<collection, files, json, pre, directPc, dialogPc, chain, rendered, notified, flow>>
entityVars == <<flags, write, call>>
settingsVars == <<expandedFolders, settingUpdate, promise>>
vars    == <<map, nextId, last, released, run,
             collection, files, json, pre, directPc, dialogPc, chain, rendered, notified,
             flow, flags, write, call,
             expandedFolders, settingUpdate, promise>>

(***************************************************************************)
(* JavaScript values.  A number is an integer, an integer plus one half    *)
(* (the non-integers the model needs), or NaN; undefined and the booleans  *)
(* are values of their own.                                                *)
(***************************************************************************)
Num(n)    == [t |-> "int",       v |-> n]
Frac(n)   == [t |-> "frac",      v |-> n]    \* the number n + 1/2
NaN       == [t |-> "nan",       v |-> 0]
Undefined == [t |-> "undefined", v |-> 0]
JsTrue    == [t |-> "bool",      v |-> 1]
JsFalse   == [t |-> "bool",      v |-> 0]

\* Number.isInteger(x)
IsInteger(x) == x.t = "int"

\* x < n for an integer n; every comparison with NaN or undefined is false
LessThan(x, n) ==
    CASE x.t = "int"  -> x.v < n
      [] x.t = "frac" -> x.v < n
      [] OTHER        -> FALSE

\* x > y for numbers; every comparison with NaN or undefined is false
GreaterThan(x, y) ==
    CASE x.t = "int"  /\ y.t = "int"  -> x.v > y.v
      [] x.t = "int"  /\ y.t = "frac" -> x.v > y.v
      [] x.t = "frac" /\ y.t = "int"  -> x.v >= y.v
      [] x.t = "frac" /\ y.t = "frac" -> x.v > y.v
      [] OTHER                        -> FALSE

\* x + 1: undefined converts to NaN, NaN stays NaN
PlusOne(x) ==
    CASE x.t = "int"  -> Num(x.v + 1)
      [] x.t = "frac" -> Frac(x.v + 1)
      [] OTHER        -> NaN

\* a ?? b
Coalesce(a, b) == IF a = Undefined THEN b ELSE a

(***************************************************************************)
(* Bounds of the model and program constants.                              *)
(***************************************************************************)
MaxSize == 2            \* entries the map may hold in the model
MaxExplicitId == 3      \* explicit ids 1..MaxExplicitId are tried

MAX_TERRAINS == 2^5 - 1

Terrains == {"grass", "lava"}

\* ids a caller passes to set and delete
Ids ==
    {Num(n) : n \in -1..MaxExplicitId}
        \cup {Num(MAX_TERRAINS), Num(MAX_TERRAINS + 1)}
        \cup {Frac(1), NaN, Undefined}

EmptyMap == [k \in {} |-> "grass"]

\* Map.prototype.set of the base class
SuperSet(m, id, terrain) ==
    [k \in DOMAIN m \cup {id} |-> IF k = id THEN terrain ELSE m[k]]

\* Map.prototype.delete of the base class: the entries that remain
SuperDelete(m, id) == [k \in DOMAIN m \ {id} |-> m[k]]

(***************************************************************************)
(* #findNextId                                                             *)
(***************************************************************************)
\* every order of the keys K
RECURSIVE KeyOrders(_)
KeyOrders(K) ==
    IF K = {} THEN {<< >>}
    ELSE UNION {{<<k>> \o rest : rest \in KeyOrders(K \ {k})} : k \in K}

\* the keys K, all integers, in ascending order
RECURSIVE Ascending(_)
Ascending(K) ==
    IF K = {} THEN << >>
    ELSE LET least == CHOOSE k \in K : \A l \in K : k.v <= l.v
         IN  <<least>> \o Ascending(K \ {least})

\* [...this.keys()].sort((a, b) => a - b).  With a NaN key the comparator is
\* not consistent and the order is implementation-defined: any order.
SortedKeys(K) == IF NaN \in K THEN KeyOrders(K) ELSE {Ascending(K)}

\* keys[idx]; undefined past the end
At(keys, idx) == IF idx \in DOMAIN keys THEN keys[idx] ELSE Undefined

\* keys[idx + 1] !== k + 1   (NaN !== NaN is true)
NotSuccessor(keys, idx) ==
    \/ PlusOne(keys[idx]) = NaN
    \/ At(keys, idx + 1) # PlusOne(keys[idx])

\* keys.find((k, idx) => keys[idx + 1] !== k + 1)
FindLastConsecutive(keys) ==
    IF \E i \in DOMAIN keys : NotSuccessor(keys, i)
    THEN keys[CHOOSE i \in DOMAIN keys :
                /\ NotSuccessor(keys, i)
                /\ \A j \in DOMAIN keys : j < i => ~NotSuccessor(keys, j)]
    ELSE Undefined

\* mutant: the scan looks only at keys that have a successor position, so an
\* unbroken run gives no match
findNextId_ScanMissesLastKey(m, next) ==
    IF next.t = "int" /\ Cardinality(DOMAIN m) = next.v - 1
    THEN {Num(next.v + 1)}
    ELSE {LET hits == {i \in DOMAIN keys :
                          i + 1 \in DOMAIN keys /\ NotSuccessor(keys, i)}
              found == IF hits = {} THEN Undefined
                       ELSE keys[CHOOSE i \in hits : \A j \in hits : i <= j]
          IN  Coalesce(PlusOne(found), Num(1)) : keys \in SortedKeys(DOMAIN m)}

\* mutant: the fast path returns the pointer itself
findNextId_FastPathKeepsPointer(m, next) ==
    IF next.t = "int" /\ Cardinality(DOMAIN m) = next.v - 1
    THEN {next}
    ELSE {Coalesce(PlusOne(FindLastConsecutive(keys)), Num(1)) :
            keys \in SortedKeys(DOMAIN m)}

\* mutant: the slow path returns the last consecutive key itself
findNextId_NoIncrement(m, next) ==
    IF next.t = "int" /\ Cardinality(DOMAIN m) = next.v - 1
    THEN {Num(next.v + 1)}
    ELSE {Coalesce(FindLastConsecutive(keys), Num(1)) : keys \in SortedKeys(DOMAIN m)}

\* The values #findNextId may return for entries m and pointer next.
findNextId(m, next) ==
    IF next.t = "int" /\ Cardinality(DOMAIN m) = next.v - 1
    THEN {Num(next.v + 1)}
    ELSE {Coalesce(PlusOne(FindLastConsecutive(keys)), Num(1)) :
            keys \in SortedKeys(DOMAIN m)}

(***************************************************************************)
(* TerrainMap                                                              *)
(***************************************************************************)
Call(op, ret, log) == [op |-> op, ret |-> ret, log |-> log]

NotReleased == [id |-> Undefined, prevNext |-> Undefined]

NoRun == [from |-> "other", adds |-> 0, pointer |-> Undefined]

\* mutant: an id above MAX_TERRAINS is refused
setCheck_HardLimit(m, id, override) ==
    IF ~override /\ id \in DOMAIN m THEN "error-occupied"
    ELSE IF ~IsInteger(id) \/ LessThan(id, 1) THEN "error-invalid"
    ELSE IF GreaterThan(id, Num(MAX_TERRAINS)) THEN "error-invalid"
    ELSE "none"

\* mutant: the occupancy check of set is dropped
setCheck_NoOccupancyCheck(m, id, override) ==
    IF ~IsInteger(id) \/ LessThan(id, 1) THEN "error-invalid"
    ELSE IF GreaterThan(id, Num(MAX_TERRAINS)) THEN "warn"
    ELSE "none"

\* The checks of set in the order the code makes them, as what it logs:
\* console.error (and return), console.warn (and go on), or nothing.
setCheck(m, id, override) ==
    IF ~override /\ id \in DOMAIN m THEN "error-occupied"
    ELSE IF ~IsInteger(id) \/ LessThan(id, 1) THEN "error-invalid"
    ELSE IF GreaterThan(id, Num(MAX_TERRAINS)) THEN "warn"
    ELSE "none"

\* TerrainMap.set(id, terrain, override)
set(idArg, terrain, override) ==
    LET id  == Coalesce(idArg, nextId)
        log == setCheck(map, id, override)
    IN  /\ IF log \in {"error-occupied", "error-invalid"}
           THEN /\ UNCHANGED <<map, nextId>>
                /\ last' = Call("set", Undefined, log)
           ELSE /\ id \in DOMAIN map \/ Cardinality(DOMAIN map) < MaxSize
                /\ map' = SuperSet(map, id, terrain)
                /\ nextId' \in findNextId(map', nextId)
                /\ last' = Call("set", id, log)
        /\ released' = NotReleased
        /\ run' = NoRun
        /\ UNCHANGED <<ioVars, entityVars, settingsVars>>

\* TerrainMap.add(terrain)
add(terrain) ==
    LET id  == nextId
        log == IF GreaterThan(id, Num(MAX_TERRAINS)) THEN "warn" ELSE "none"
    IN  /\ id \in DOMAIN map \/ Cardinality(DOMAIN map) < MaxSize
        /\ map' = SuperSet(map, id, terrain)
        /\ nextId' \in findNextId(map', nextId)
        /\ last' = Call("add", id, log)
        /\ released' = NotReleased
        /\ run' = IF run.from = "other" THEN run ELSE [run EXCEPT !.adds = @ + 1]
        /\ UNCHANGED <<ioVars, entityVars, settingsVars>>

\* mutant: clear forgets to reset the pointer
clear_KeepsPointer ==
    /\ map' = EmptyMap
    /\ nextId' = nextId
    /\ last' = Call("clear", Undefined, "none")
    /\ released' = NotReleased
    /\ run' = [from |-> "reset", adds |-> 0, pointer |-> nextId]
    /\ UNCHANGED <<ioVars, entityVars, settingsVars>>

\* TerrainMap.clear()
clear ==
    /\ map' = EmptyMap
    /\ nextId' = Num(1)
    /\ last' = Call("clear", Undefined, "none")
    /\ released' = NotReleased
    /\ run' = [from |-> "reset", adds |-> 0, pointer |-> nextId]
    /\ UNCHANGED <<ioVars, entityVars, settingsVars>>

\* mutant: delete recomputes the pointer before it looks at super.delete's result
delete_AlwaysRecomputes(id) ==
    /\ IF id \notin DOMAIN map
       THEN /\ map' = map
            /\ nextId' \in findNextId(map, nextId)
            /\ last' = Call("delete", JsFalse, "none")
            /\ released' = NotReleased
       ELSE /\ map' = SuperDelete(map, id)
            /\ nextId' \in findNextId(map', nextId)
            /\ last' = Call("delete", JsTrue, "none")
            /\ released' = [id |-> id, prevNext |-> nextId]
    /\ run' = NoRun
    /\ UNCHANGED <<ioVars, entityVars, settingsVars>>

\* TerrainMap.delete(id)
delete(id) ==
    /\ IF id \notin DOMAIN map
       THEN /\ UNCHANGED <<map, nextId>>
            /\ last' = Call("delete", JsFalse, "none")
            /\ released' = NotReleased
       ELSE /\ map' = SuperDelete(map, id)
            /\ nextId' \in IF GreaterThan(nextId, id)
                           THEN findNextId(map', nextId)
                           ELSE {nextId}
            /\ last' = Call("delete", JsTrue, "none")
            /\ released' = [id |-> id, prevNext |-> nextId]
    /\ run' = NoRun
    /\ UNCHANGED <<ioVars, entityVars, settingsVars>>

InitMap ==
    /\ map = EmptyMap
    /\ nextId = Num(1)
    /\ last = Call("new", Undefined, "none")
    /\ released = NotReleased
    /\ run = [from |-> "fresh", adds |-> 0, pointer |-> Num(1)]

(***************************************************************************)
(* Terrain.replaceFromJSON and Terrain.replaceFromJSONDialog               *)
(***************************************************************************)
NumEffects == 2
Effects == 1..NumEffects
Docs == SUBSET Effects      \* a JSON document, as the effects it holds

Settled == {"fulfilled", "readRejected", "importRejected"}

\* no call is in flight: a new one may start
Quiescent ==
    /\ directPc \in {"idle", "returned", "thrown"}
    /\ \/ dialogPc \in {"idle", "closed"}
       \/ dialogPc = "done" /\ chain \in Settled

InitIO ==
    /\ collection \in SUBSET Effects
    /\ files = << >>
    /\ json = << >>
    /\ pre = collection
    /\ directPc = "idle"
    /\ dialogPc = "idle"
    /\ chain = "none"
    /\ rendered = collection
    /\ notified = FALSE
    /\ flow = "none"

\* item.importFromJSON(json) of the external store: it replaces the item's
\* content by the document's in one update, or rejects and changes nothing.
\* The collections it may leave and whether it fulfilled.
ItemImportFromJSON(d) ==
    {[ok |-> TRUE, effects |-> d], [ok |-> FALSE, effects |-> collection]}

\* A caller invokes Terrain.replaceFromJSON(json) and awaits it.
replaceFromJSON_Call(d) ==
    /\ Quiescent
    /\ flow' = "replace"
    /\ directPc' = "awaiting"
    /\ dialogPc' = "idle"
    /\ chain' = "none"
    /\ files' = << >>
    /\ json' = <<d>>
    /\ pre' = collection
    /\ notified' = FALSE
    /\ UNCHANGED <<collection, rendered>>
    /\ UNCHANGED <<mapVars, entityVars, settingsVars>>

\* await item.importFromJSON(json) settles: the async function returns, or
\* the rejection leaves it as its own rejection.
replaceFromJSON_Settle ==
    /\ flow = "replace"
    /\ directPc = "awaiting"
    /\ UNCHANGED flow
    /\ \E r \in ItemImportFromJSON(json[1]) :
          /\ collection' = r.effects
          /\ directPc' = IF r.ok THEN "returned" ELSE "thrown"
    /\ UNCHANGED <<files, json, pre, dialogPc, chain, rendered, notified>>
    /\ UNCHANGED <<mapVars, entityVars, settingsVars>>

\* replaceFromJSONDialog up to the rendered Dialog
replaceFromJSONDialog_Open ==
    /\ Quiescent
    /\ flow' = "replace"
    /\ dialogPc' = "open"
    /\ directPc' = "idle"
    /\ chain' = "none"
    /\ files' = << >>
    /\ json' = << >>
    /\ pre' = collection
    /\ notified' = FALSE
    /\ UNCHANGED <<collection, rendered>>
    /\ UNCHANGED <<mapVars, entityVars, settingsVars>>

\* The Import button's callback, with the files f of the form.
replaceFromJSONDialog_Import(f) ==
    /\ flow = "replace"
    /\ dialogPc = "open"
    /\ UNCHANGED flow
    /\ files' = f
    /\ IF Len(f) = 0
       THEN /\ notified' = TRUE         \* ui.notifications.error, return
            /\ dialogPc' = "closed"     \* importPromise stays pending
            /\ UNCHANGED chain
       ELSE /\ chain' = "reading"       \* readTextFromFile(..).then(..), not awaited
            /\ dialogPc' = "resolved"   \* resolve(true)
            /\ UNCHANGED notified
    /\ UNCHANGED <<collection, json, pre, directPc, rendered>>
    /\ UNCHANGED <<mapVars, entityVars, settingsVars>>

\* The Cancel button: no callback, importPromise stays pending.
replaceFromJSONDialog_Cancel ==
    /\ flow = "replace"
    /\ dialogPc = "open"
    /\ UNCHANGED flow
    /\ dialogPc' = "closed"
    /\ UNCHANGED <<collection, files, json, pre, directPc, chain, rendered, notified>>
    /\ UNCHANGED <<mapVars, entityVars, settingsVars>>

\* await importPromise; TerrainEffectsApp.rerender(); the function returns.
replaceFromJSONDialog_Rerender ==
    /\ flow = "replace"
    /\ dialogPc = "resolved"
    /\ UNCHANGED flow
    /\ rendered' = collection
    /\ dialogPc' = "done"
    /\ UNCHANGED <<collection, files, json, pre, directPc, chain, notified>>
    /\ UNCHANGED <<mapVars, entityVars, settingsVars>>

\* readTextFromFile settles.  The continuation of await importPromise is a
\* microtask of the click's task, the file read a later task: the re-render
\* has run.  On success the then-callback calls replaceFromJSON(json).
Chain_Read ==
    /\ flow = "replace"
    /\ chain = "reading"
    /\ UNCHANGED flow
    /\ dialogPc = "done"
    /\ \/ chain' = "importing" /\ json' = <<files[1]>>
       \/ chain' = "readRejected" /\ UNCHANGED json
    /\ UNCHANGED <<collection, files, pre, directPc, dialogPc, rendered, notified>>
    /\ UNCHANGED <<mapVars, entityVars, settingsVars>>

\* replaceFromJSON of the then-callback settles; nothing handles a rejection.
Chain_Settle ==
    /\ flow = "replace"
    /\ chain = "importing"
    /\ UNCHANGED flow
    /\ \E r \in ItemImportFromJSON(json[1]) :
          /\ collection' = r.effects
          /\ chain' = IF r.ok THEN "fulfilled" ELSE "importRejected"
    /\ UNCHANGED <<files, json, pre, directPc, dialogPc, rendered, notified>>
    /\ UNCHANGED <<mapVars, entityVars, settingsVars>>

(***************************************************************************)
(* Terrain: flag-backed attributes, elevationMinMax, toJSON, updateSource   *)
(***************************************************************************)
MaxElev == 1
Elevations == -MaxElev..MaxElev

Attrs == {"anchor", "offset", "rangeBelow", "rangeAbove", "userVisible", "color"}

\* The flag each getter passes to #getAEFlag.
GetterKey(attr) ==
    CASE attr = "anchor"      -> "FLAGS.ANCHOR.VALUE"
      [] attr = "offset"      -> "FLAGS.OFFSET"
      [] attr = "rangeBelow"  -> "FLAGS.RANGE_BELOW"
      [] attr = "rangeAbove"  -> "FLAGS.RANGE_ABOVE"
      [] attr = "userVisible" -> "FLAGS.USER_VISIBLE"
      [] attr = "color"       -> "FLAGS.COLOR"

\* The flag each property setter (set anchor(value), ...) passes to #setAEFlag.
SetterKey(attr) ==
    CASE attr = "anchor"      -> "FLAGS.ANCHOR.VALUE"
      [] attr = "offset"      -> "FLAGS.OFFSET"
      [] attr = "rangeBelow"  -> "FLAGS.RANGE_BELOW"
      [] attr = "rangeAbove"  -> "FLAGS.RANGE_ABOVE"
      [] attr = "userVisible" -> "FLAGS.USER_VISIBLE"
      [] attr = "color"       -> "FLAGS.COLOR"

\* The flag each async setter (setAnchor(value), ...) passes to #setAEFlag.
\* setAnchor passes FLAGS.ANCHOR, the object that holds VALUE and CHOICES.
AsyncSetterKey(attr) ==
    CASE attr = "anchor"      -> "FLAGS.ANCHOR"
      [] attr = "offset"      -> "FLAGS.OFFSET"
      [] attr = "rangeBelow"  -> "FLAGS.RANGE_BELOW"
      [] attr = "rangeAbove"  -> "FLAGS.RANGE_ABOVE"
      [] attr = "userVisible" -> "FLAGS.USER_VISIBLE"
      [] attr = "color"       -> "FLAGS.COLOR"

\* Values a caller passes for each attribute.
AttrValues(attr) ==
    CASE attr = "anchor"      -> {"absolute", "relativeToTerrain"}
      [] attr = "userVisible" -> BOOLEAN
      [] attr = "color"       -> {"#000000", "#ff0000"}
      [] OTHER                -> Elevations

\* The flags of an effect after Terrain.initialize.
InitialFlags ==
    [k \in {GetterKey(a) : a \in Attrs} |->
        CASE k = "FLAGS.ANCHOR.VALUE" -> "absolute"
          [] k = "FLAGS.USER_VISIBLE" -> FALSE
          [] k = "FLAGS.COLOR"        -> "#000000"
          [] OTHER                    -> 0]

\* activeEffect.getFlag(MODULE_ID, flag)
getAEFlag(f, flag) == IF flag \in DOMAIN f THEN f[flag] ELSE Undefined

\* get anchor(), get offset(), ...
Getter(f, attr) == getAEFlag(f, GetterKey(attr))

\* What every getter of a Terrain over the flags f returns.
Attributes(f) == [a \in Attrs |-> Getter(f, a)]

NoWrite == [key |-> "none", value |-> FALSE, awaited |-> FALSE]
NoCall  == [op |-> "none"]

\* #setAEFlag(flag, value): hands the update to activeEffect.setFlag, which
\* settles later.  Calls on the Terrain are made one at a time in the model:
\* the next one is made when the update of the previous one has settled.
setAEFlag(flag, value, awaited) ==
    /\ write.key = "none"
    /\ write' = [key |-> flag, value |-> value, awaited |-> awaited]
    /\ UNCHANGED flags

\* set anchor(value) { this.#setAEFlag(...); }   The promise is dropped and
\* the assignment returns at once.
setter(attr, value) ==
    /\ setAEFlag(SetterKey(attr), value, FALSE)
    /\ call' = [op |-> "setter", attr |-> attr,
                seen |-> "returned", stored |-> "pending"]
    /\ UNCHANGED <<mapVars, ioVars, settingsVars>>

\* async setAnchor(value) { return this.#setAEFlag(...); }   The caller
\* awaits the promise of the update.
asyncSetter(attr, value) ==
    /\ setAEFlag(AsyncSetterKey(attr), value, TRUE)
    /\ call' = [op |-> "asyncSetter", attr |-> attr,
                seen |-> "pending", stored |-> "pending"]
    /\ UNCHANGED <<mapVars, ioVars, settingsVars>>

IsSetterCall == call.op \in {"setter", "asyncSetter"}

\* The update in flight is applied by the store.
setFlag_Fulfil ==
    /\ write.key # "none"
    /\ flags' = [k \in DOMAIN flags \cup {write.key} |->
                    IF k = write.key THEN write.value ELSE flags[k]]
    /\ write' = NoWrite
    /\ call' = IF IsSetterCall
               THEN [call EXCEPT !.stored = "written",
                                 !.seen = IF write.awaited THEN "fulfilled" ELSE @]
               ELSE call
    /\ UNCHANGED <<mapVars, ioVars, settingsVars>>

\* The update in flight is rejected by the store.
setFlag_Reject ==
    /\ write.key # "none"
    /\ write' = NoWrite
    /\ call' = IF IsSetterCall
               THEN [call EXCEPT !.stored = "rejected",
                                 !.seen = IF write.awaited THEN "rejected" ELSE @]
               ELSE call
    /\ UNCHANGED flags
    /\ UNCHANGED <<mapVars, ioVars, settingsVars>>

elevationMinMax_Ordered(f, anchorE) ==
    LET e == anchorE + Getter(f, "offset")
        a == e + Getter(f, "rangeBelow")
        b == e + Getter(f, "rangeAbove")
    IN  [min |-> IF a < b THEN a ELSE b, max |-> IF a < b THEN b ELSE a]

\* elevationMinMax(anchorE), as a function of the flags it reads.
elevationMinMax(f, anchorE) ==
    LET offset     == Getter(f, "offset")
        rangeBelow == Getter(f, "rangeBelow")
        rangeAbove == Getter(f, "rangeAbove")
        e          == anchorE + offset
    IN  [min |-> e + rangeBelow, max |-> e + rangeAbove]

elevationMinMax_Call(anchorE) ==
    /\ write.key = "none"
    /\ call' = [op |-> "elevationMinMax", ret |-> elevationMinMax(flags, anchorE)]
    /\ UNCHANGED <<flags, write>>
    /\ UNCHANGED <<mapVars, ioVars, settingsVars>>

\* Names a Terrain instance answers to: its fields and the accessors and
\* methods of the class.
Members ==
    {"_effectHelper", "_settings", "initialize", "activeEffect", "name",
     "description", "icon", "id", "uuid", "setAnchor", "setOffset",
     "setRangeBelow", "setRangeAbove", "setUserVisible", "setColor",
     "addToScene", "removeFromScene", "elevationMinMax", "toJSON",
     "updateSource", "exportToJSON", "importFromJSON",
     "importFromJSONDialog"} \cup Attrs

\* this.config on a Terrain t: a name that is not a member reads as undefined.
Config(t) == IF "config" \in Members THEN t.config ELSE Undefined

Threw       == [threw |-> TRUE]
Returned(v) == [threw |-> FALSE, value |-> v]

\* toJSON(): out.activeEffect = ... is a TypeError when out is undefined.
toJSON(t) ==
    LET out == Config(t)
    IN  IF out = Undefined
        THEN Threw
        ELSE Returned([k \in DOMAIN out \cup {"activeEffect"} |->
                          IF k = "activeEffect"
                          THEN IF k \in DOMAIN out THEN out[k] ELSE Undefined
                          ELSE out[k]])

\* updateSource(json): the first entry other than "id" reads or assigns a
\* property of config, a TypeError when config is undefined.  The value is
\* the config the call leaves behind.
updateSource(t, portable) ==
    LET config == Config(t)
        keys   == DOMAIN portable \ {"id"}
    IN  IF config = Undefined
        THEN IF keys # {} THEN Threw ELSE Returned(Undefined)
        ELSE Returned([k \in DOMAIN config \cup keys |->
                          IF k \in keys THEN portable[k] ELSE config[k]])

\* A Terrain over the flags f.
TerrainOver(f) == [_effectHelper |-> f, _settings |-> Undefined]

\* Hand-written portable forms passed to updateSource.
PortableForms ==
    { [id |-> "a"],
      [id |-> "a", name |-> "lava"],
      [id |-> "a", name |-> "lava", activeEffect |-> "effect"] }

toJSON_Call ==
    /\ write.key = "none"
    /\ call' = [op |-> "toJSON", ret |-> toJSON(TerrainOver(flags))]
    /\ UNCHANGED <<flags, write>>
    /\ UNCHANGED <<mapVars, ioVars, settingsVars>>

\* updateSource writes to config only, never to the flags, so the getters
\* of the destination return afterwards what they returned before.
updateSource_Call(portable) ==
    /\ write.key = "none"
    /\ call' = [op |-> "updateSource",
                ret |-> updateSource(TerrainOver(flags), portable),
                attrs |-> Attributes(flags)]
    /\ UNCHANGED <<flags, write>>
    /\ UNCHANGED <<mapVars, ioVars, settingsVars>>

\* fresh.updateSource(e.toJSON()) for the Terrain e over the flags and a
\* fresh Terrain over the initial flags.
RoundTrip ==
    /\ write.key = "none"
    /\ LET out      == toJSON(TerrainOver(flags))
           fresh    == TerrainOver(InitialFlags)
       IN  call' = [op |-> "roundTrip",
                    ret |-> IF out.threw THEN Threw
                            ELSE updateSource(fresh, out.value),
                    attrs |-> Attributes(InitialFlags)]
    /\ UNCHANGED <<flags, write>>
    /\ UNCHANGED <<mapVars, ioVars, settingsVars>>

InitEntity ==
    /\ flags = InitialFlags
    /\ write = NoWrite
    /\ call = NoCall

(***************************************************************************)
(* Terrain.importFromJSON and Terrain.importFromJSONDialog, static          *)
(***************************************************************************)
\* item.createEmbeddedDocuments("ActiveEffect", ...) of the external store:
\* it adds the document's effects to the item in one update, or rejects and
\* changes nothing.  A document stands for the effects the store creates
\* from it, which are new to the item.
ItemCreateEmbeddedDocuments(d) ==
    {[ok |-> TRUE, effects |-> collection \cup d],
     [ok |-> FALSE, effects |-> collection]}

\* A caller invokes Terrain.importFromJSON(json) and awaits it.
importFromJSON_Call(d) ==
    /\ Quiescent
    /\ d \cap collection = {}
    /\ flow' = "import"
    /\ directPc' = "awaiting"
    /\ dialogPc' = "idle"
    /\ chain' = "none"
    /\ files' = << >>
    /\ json' = <<d>>
    /\ pre' = collection
    /\ notified' = FALSE
    /\ UNCHANGED <<collection, rendered>>
    /\ UNCHANGED <<mapVars, entityVars, settingsVars>>

\* await item.createEmbeddedDocuments(...) settles.
importFromJSON_Settle ==
    /\ flow = "import"
    /\ directPc = "awaiting"
    /\ \E r \in ItemCreateEmbeddedDocuments(json[1]) :
          /\ collection' = r.effects
          /\ directPc' = IF r.ok THEN "returned" ELSE "thrown"
    /\ UNCHANGED <<files, json, pre, dialogPc, chain, rendered, notified, flow>>
    /\ UNCHANGED <<mapVars, entityVars, settingsVars>>

\* importFromJSONDialog up to the rendered Dialog
importFromJSONDialog_Open ==
    /\ Quiescent
    /\ flow' = "import"
    /\ dialogPc' = "open"
    /\ directPc' = "idle"
    /\ chain' = "none"
    /\ files' = << >>
    /\ json' = << >>
    /\ pre' = collection
    /\ notified' = FALSE
    /\ UNCHANGED <<collection, rendered>>
    /\ UNCHANGED <<mapVars, entityVars, settingsVars>>

importFromJSONDialog_Import_ReadsWithoutFile(f) ==
    /\ flow = "import"
    /\ dialogPc = "open"
    /\ files' = f
    /\ chain' = "reading"
    /\ dialogPc' = "resolved"
    /\ notified' = (Len(f) = 0)
    /\ UNCHANGED <<collection, json, pre, directPc, rendered, flow>>
    /\ UNCHANGED <<mapVars, entityVars, settingsVars>>

\* The Import button's callback, with the files f of the form.
importFromJSONDialog_Import(f) ==
    /\ flow = "import"
    /\ dialogPc = "open"
    /\ files' = f
    /\ IF Len(f) = 0
       THEN /\ notified' = TRUE         \* ui.notifications.error, return
            /\ dialogPc' = "closed"     \* importPromise stays pending
            /\ UNCHANGED chain
       ELSE /\ chain' = "reading"       \* readTextFromFile(..).then(..), not awaited
            /\ dialogPc' = "resolved"   \* resolve(true)
            /\ UNCHANGED notified
    /\ UNCHANGED <<collection, json, pre, directPc, rendered, flow>>
    /\ UNCHANGED <<mapVars, entityVars, settingsVars>>

\* The Cancel button: no callback, importPromise stays pending.
importFromJSONDialog_Cancel ==
    /\ flow = "import"
    /\ dialogPc = "open"
    /\ dialogPc' = "closed"
    /\ UNCHANGED <<collection, files, json, pre, directPc, chain, rendered, notified, flow>>
    /\ UNCHANGED <<mapVars, entityVars, settingsVars>>

\* await importPromise; TerrainEffectsApp.rerender(); the function returns.
importFromJSONDialog_Rerender ==
    /\ flow = "import"
    /\ dialogPc = "resolved"
    /\ rendered' = collection
    /\ dialogPc' = "done"
    /\ UNCHANGED <<collection, files, json, pre, directPc, chain, notified, flow>>
    /\ UNCHANGED <<mapVars, entityVars, settingsVars>>

\* readTextFromFile settles, after the re-render as in the replace dialog.
\* On success the then-callback calls importFromJSON(json).
importChain_Read ==
    /\ flow = "import"
    /\ chain = "reading"
    /\ dialogPc = "done"
    /\ \/ chain' = "importing" /\ json' = <<files[1]>>
       \/ chain' = "readRejected" /\ UNCHANGED json
    /\ UNCHANGED <<collection, files, pre, directPc, dialogPc, rendered, notified, flow>>
    /\ UNCHANGED <<mapVars, entityVars, settingsVars>>

\* importFromJSON of the then-callback settles; nothing handles a rejection.
importChain_Settle ==
    /\ flow = "import"
    /\ chain = "importing"
    /\ \E r \in ItemCreateEmbeddedDocuments(json[1]) :
          /\ collection' = r.effects
          /\ chain' = IF r.ok THEN "fulfilled" ELSE "importRejected"
    /\ UNCHANGED <<files, json, pre, directPc, dialogPc, rendered, notified, flow>>
    /\ UNCHANGED <<mapVars, entityVars, settingsVars>>

(***************************************************************************)
(* importFromJSON and importFromJSONDialog of a Terrain instance            *)
(***************************************************************************)
\* Exported effects a file may hold, as the flags they carry.
EffectDocs ==
    { InitialFlags,
      [InitialFlags EXCEPT !["FLAGS.COLOR"] = "#ff0000"] }

\* this.activeEffect.importFromJSON(json) of the external store: it
\* overwrites the effect's data by the document's in one update, or rejects
\* and changes nothing.
EffectImportFromJSON(d) ==
    {[ok |-> TRUE, flags |-> d], [ok |-> FALSE, flags |-> flags]}

\* A caller invokes terrain.importFromJSON(json) and awaits it.
instanceImportFromJSON_Call(d) ==
    /\ Quiescent
    /\ flow' = "instance"
    /\ directPc' = "awaiting"
    /\ dialogPc' = "idle"
    /\ chain' = "none"
    /\ files' = << >>
    /\ json' = <<d>>
    /\ pre' = collection
    /\ notified' = FALSE
    /\ UNCHANGED <<collection, rendered>>
    /\ UNCHANGED <<mapVars, entityVars, settingsVars>>

\* await this.activeEffect.importFromJSON(json) settles.
instanceImportFromJSON_Settle ==
    /\ flow = "instance"
    /\ directPc = "awaiting"
    /\ \E r \in EffectImportFromJSON(json[1]) :
          /\ flags' = r.flags
          /\ directPc' = IF r.ok THEN "returned" ELSE "thrown"
    /\ UNCHANGED <<collection, files, json, pre, dialogPc, chain, rendered, notified, flow>>
    /\ UNCHANGED <<mapVars, write, call, settingsVars>>

\* terrain.importFromJSONDialog(): the Dialog is rendered and the function
\* returns; there is no promise for the button and no re-render.
instanceImportFromJSONDialog_Open ==
    /\ Quiescent
    /\ flow' = "instance"
    /\ dialogPc' = "open"
    /\ directPc' = "idle"
    /\ chain' = "none"
    /\ files' = << >>
    /\ json' = << >>
    /\ pre' = collection
    /\ notified' = FALSE
    /\ UNCHANGED <<collection, rendered>>
    /\ UNCHANGED <<mapVars, entityVars, settingsVars>>

\* The Import button's callback, with the files f of the form.
instanceImportFromJSONDialog_Import(f) ==
    /\ flow = "instance"
    /\ dialogPc = "open"
    /\ files' = f
    /\ IF Len(f) = 0
       THEN /\ notified' = TRUE         \* ui.notifications.error, return
            /\ dialogPc' = "closed"
            /\ UNCHANGED chain
       ELSE /\ chain' = "reading"       \* readTextFromFile(..).then(..), not awaited
            /\ dialogPc' = "done"
            /\ UNCHANGED notified
    /\ UNCHANGED <<collection, json, pre, directPc, rendered, flow>>
    /\ UNCHANGED <<mapVars, entityVars, settingsVars>>

\* The Cancel button: no callback.
instanceImportFromJSONDialog_Cancel ==
    /\ flow = "instance"
    /\ dialogPc = "open"
    /\ dialogPc' = "closed"
    /\ UNCHANGED <<collection, files, json, pre, directPc, chain, rendered, notified, flow>>
    /\ UNCHANGED <<mapVars, entityVars, settingsVars>>

\* readTextFromFile settles.  On success the then-callback calls
\* this.importFromJSON(json).
instanceChain_Read ==
    /\ flow = "instance"
    /\ chain = "reading"
    /\ \/ chain' = "importing" /\ json' = <<files[1]>>
       \/ chain' = "readRejected" /\ UNCHANGED json
    /\ UNCHANGED <<collection, files, pre, directPc, dialogPc, rendered, notified, flow>>
    /\ UNCHANGED <<mapVars, entityVars, settingsVars>>

\* this.importFromJSON of the then-callback settles; nothing handles a
\* rejection.
instanceChain_Settle ==
    /\ flow = "instance"
    /\ chain = "importing"
    /\ \E r \in EffectImportFromJSON(json[1]) :
          /\ flags' = r.flags
          /\ chain' = IF r.ok THEN "fulfilled" ELSE "importRejected"
    /\ UNCHANGED <<collection, files, json, pre, directPc, dialogPc, rendered, notified, flow>>
    /\ UNCHANGED <<mapVars, write, call, settingsVars>>

(***************************************************************************)
(* TerrainSettings: the expanded-folders setting                            *)
(***************************************************************************)
Folders == {"folderA", "folderB", "folderC"}

\* [...new Set(arr)]: each element once, at its first position
RemoveDuplicates(arr) ==
    SelectSeq([i \in DOMAIN arr |->
                  IF \E j \in 1..(i - 1) : arr[j] = arr[i]
                  THEN "" ELSE arr[i]],
              LAMBDA x : x # "")

Includes(arr, x) == \E i \in DOMAIN arr : arr[i] = x

NoUpdate == [pending |-> FALSE, value |-> << >>]
NoPromise == [op |-> "none", arg |-> "", state |-> "none"]

\* this.set(key, value): the update of the setting is handed to the settings
\* store and completes later; the promise of this.set settles then.  One
\* update of the setting is in flight at a time.
SettingsSet(value) ==
    /\ ~settingUpdate.pending
    /\ settingUpdate' = [pending |-> TRUE, value |-> value]
    /\ UNCHANGED expandedFolders

\* static async addExpandedFolder(folderId): this.set(...) is called and its
\* promise dropped; the function's own promise is fulfilled at once.
addExpandedFolder(folderId) ==
    /\ LET folderArr == RemoveDuplicates(Append(expandedFolders, folderId))
       IN  SettingsSet(folderArr)
    /\ promise' = [op |-> "addExpandedFolder", arg |-> folderId, state |-> "fulfilled"]
    /\ UNCHANGED <<mapVars, ioVars, entityVars>>

\* static async removeExpandedFolder(id): return this.set(...); the
\* function's promise follows the promise of this.set.
removeExpandedFolder(id) ==
    /\ LET expandedFolderArray == SelectSeq(expandedFolders, LAMBDA x : x # id)
       IN  SettingsSet(expandedFolderArray)
    /\ promise' = [op |-> "removeExpandedFolder", arg |-> id, state |-> "pending"]
    /\ UNCHANGED <<mapVars, ioVars, entityVars>>

\* static async clearExpandedFolders() { this.set(..., []); }
clearExpandedFolders ==
    /\ SettingsSet(<< >>)
    /\ promise' = [op |-> "clearExpandedFolders", arg |-> "", state |-> "fulfilled"]
    /\ UNCHANGED <<mapVars, ioVars, entityVars>>

\* The settings store completes the update.
SettingsSet_Complete ==
    /\ settingUpdate.pending
    /\ expandedFolders' = settingUpdate.value
    /\ settingUpdate' = NoUpdate
    /\ promise' = IF promise.state = "pending"
                  THEN [promise EXCEPT !.state = "fulfilled"] ELSE promise
    /\ UNCHANGED <<mapVars, ioVars, entityVars>>

\* The settings store rejects the update.
SettingsSet_Reject ==
    /\ settingUpdate.pending
    /\ settingUpdate' = NoUpdate
    /\ promise' = IF promise.state = "pending"
                  THEN [promise EXCEPT !.state = "rejected"] ELSE promise
    /\ UNCHANGED expandedFolders
    /\ UNCHANGED <<mapVars, ioVars, entityVars>>

InitSettings ==
    /\ expandedFolders = << >>
    /\ settingUpdate = NoUpdate
    /\ promise = NoPromise

(***************************************************************************)
(* Specifications                                                          *)
(***************************************************************************)
\* Spec: the map, with no replace running.  SpecIO: the replace flows, over
\* every content of the terrains item, with the map left alone.
Init == InitMap /\ InitIO /\ InitEntity /\ InitSettings /\ collection = {}

InitReplace == InitMap /\ InitIO /\ InitEntity /\ InitSettings

Next ==
    \/ \E id \in Ids, terrain \in Terrains, override \in BOOLEAN :
          set(id, terrain, override)
    \/ \E terrain \in Terrains : add(terrain)
    \/ clear
    \/ \E id \in Ids : delete(id)

Spec == Init /\ [][Next]_vars

NextIO ==
    \/ \E d \in Docs : replaceFromJSON_Call(d)
    \/ replaceFromJSON_Settle
    \/ replaceFromJSONDialog_Open
    \/ \E f \in {<< >>} \cup {<<d>> : d \in Docs} : replaceFromJSONDialog_Import(f)
    \/ replaceFromJSONDialog_Cancel
    \/ replaceFromJSONDialog_Rerender
    \/ Chain_Read
    \/ Chain_Settle

SpecIO == InitReplace /\ [][NextIO]_vars

NextFlows ==
    \/ NextIO
    \/ \E d \in Docs : importFromJSON_Call(d)
    \/ importFromJSON_Settle
    \/ importFromJSONDialog_Open
    \/ \E f \in {<< >>} \cup {<<d>> : d \in Docs} : importFromJSONDialog_Import(f)
    \/ importFromJSONDialog_Cancel
    \/ importFromJSONDialog_Rerender
    \/ importChain_Read
    \/ importChain_Settle
    \/ \E d \in EffectDocs : instanceImportFromJSON_Call(d)
    \/ instanceImportFromJSON_Settle
    \/ instanceImportFromJSONDialog_Open
    \/ \E f \in {<< >>} \cup {<<d>> : d \in EffectDocs} : instanceImportFromJSONDialog_Import(f)
    \/ instanceImportFromJSONDialog_Cancel
    \/ instanceChain_Read
    \/ instanceChain_Settle

SpecFlows == InitReplace /\ [][NextFlows]_vars

NextEntity ==
    \/ \E attr \in Attrs : \E value \in AttrValues(attr) : setter(attr, value)
    \/ \E attr \in Attrs : \E value \in AttrValues(attr) : asyncSetter(attr, value)
    \/ setFlag_Fulfil
    \/ setFlag_Reject
    \/ \E anchorE \in Elevations : elevationMinMax_Call(anchorE)
    \/ toJSON_Call
    \/ \E portable \in PortableForms : updateSource_Call(portable)
    \/ RoundTrip

SpecEntity == Init /\ [][NextEntity]_vars

NextSettings ==
    \/ \E folderId \in Folders : addExpandedFolder(folderId)
    \/ \E id \in Folders : removeExpandedFolder(id)
    \/ clearExpandedFolders
    \/ SettingsSet_Complete
    \/ SettingsSet_Reject

SpecSettings == Init /\ [][NextSettings]_vars

(***************************************************************************)
(* Properties of TerrainMap, checked under Spec                            *)
(***************************************************************************)
Keys == DOMAIN map
Size == Cardinality(Keys)

\* the smallest positive integer that is not a key
SmallestUnused ==
    CHOOSE n \in 1..(Size + 1) :
        /\ Num(n) \notin Keys
        /\ \A l \in 1..(n - 1) : Num(l) \in Keys

\* C1: the next-candidate pointer is never a key of the map, so add puts its
\* terrain under an id that was unused, returns that id, and the map grows
\* by exactly one entry.
C1_PointerNeverAKey ==
    [][ /\ nextId' \notin DOMAIN map'
        /\ \A terrain \in Terrains :
              add(terrain) =>
                  /\ last'.ret \notin Keys
                  /\ Cardinality(DOMAIN map') = Size + 1 ]_vars

\* C2: the next-candidate pointer is always the smallest positive integer
\* that is not a key of the map (so add returns the smallest unused id).
C2_PointerIsSmallestUnused == nextId = Num(SmallestUnused)

\* after delete(id): id is the only unused value below the pointer p that
\* held before the delete
OnlyGapBelow(id, p) ==
    /\ id.t = "int" /\ p.t = "int"
    /\ id.v < p.v
    /\ \A n \in 1..(p.v - 1) : (Num(n) \in Keys) <=> (n # id.v)

\* C3: when delete(id) has left id as the only unused value below the
\* pointer that held before it, the next add returns id.
C3_ReleasedGapIsReused ==
    [][ (released.id # Undefined /\ OnlyGapBelow(released.id, released.prevNext))
            => \A terrain \in Terrains :
                  add(terrain) => last'.ret = released.id ]_vars

\* C4: k adds in a row on a fresh or cleared map return 1, 2, ..., k: the
\* k-th returns k and the keys are then exactly 1..k.
C4_ConsecutiveFromOne ==
    (run.from \in {"fresh", "reset"} /\ run.adds >= 1)
        => /\ last.op = "add"
           /\ last.ret = Num(run.adds)
           /\ Keys = {Num(n) : n \in 1..run.adds}

C4_Witness ==
    /\ run.from = "reset"
    /\ run.adds = 2
    /\ last.ret = Num(2)

\* C5: set on an occupied id without override returns no id, reports the
\* occupied error and changes neither the entries nor the pointer.
C5_OccupiedSetChangesNothing ==
    [][ \A id \in Ids :
          Coalesce(id, nextId) \in Keys =>
              \A terrain \in Terrains :
                  set(id, terrain, FALSE) =>
                      /\ last'.ret = Undefined
                      /\ last'.log = "error-occupied"
                      /\ map' = map
                      /\ nextId' = nextId ]_vars

C5_Witness ==
    /\ last.op = "set"
    /\ last.log = "error-occupied"
    /\ last.ret = Undefined
    /\ Size >= 1

\* the ids a caller may supply that are not positive integers
InvalidIds == {id \in Ids \ {Undefined} : ~IsInteger(id) \/ LessThan(id, 1)}

\* C6: set with a supplied id that is zero, negative or not an integer
\* fails with the invalid-identifier error, with or without override, and
\* changes neither the entries nor the pointer.
C6_InvalidIdRejected ==
    [][ \A id \in InvalidIds, terrain \in Terrains, override \in BOOLEAN :
          set(id, terrain, override) =>
              /\ last'.ret = Undefined
              /\ last'.log = "error-invalid"
              /\ map' = map
              /\ nextId' = nextId ]_vars

\* C7: after clear, from whatever state, the map is empty and the pointer
\* is 1, and an add made right after it returns 1.
C7_ClearThenAdd ==
    [][ /\ last'.op = "clear" => (map' = EmptyMap /\ nextId' = Num(1))
        /\ last.op = "clear" =>
              \A terrain \in Terrains : add(terrain) => last'.ret = Num(1) ]_vars

C7_Witness ==
    /\ run.from = "reset"
    /\ run.pointer = NaN
    /\ run.adds = 1
    /\ last.op = "add"
    /\ last.ret = Num(1)

\* C8: every key of the map is an integer from 1 to MAX_TERRAINS = 31.
C8_KeysWithinCapacity ==
    \A k \in Keys : k.t = "int" /\ k.v \in 1..MAX_TERRAINS

\* C9: delete(id) returns true exactly when id was a key, and then removes
\* that entry and no other; when id is no key it returns false and changes
\* neither the entries nor the pointer.
C9_DeleteFrame ==
    [][ \A id \in Ids :
          delete(id) =>
              IF id \in Keys
              THEN /\ last'.ret = JsTrue
                   /\ DOMAIN map' = Keys \ {id}
                   /\ \A k \in DOMAIN map' : map'[k] = map[k]
              ELSE /\ last'.ret = JsFalse
                   /\ map' = map
                   /\ nextId' = nextId ]_vars

C9_Witness ==
    /\ last.op = "delete"
    /\ last.ret = JsTrue
    /\ released.id \notin Keys
    /\ Size >= 1

\* the ids a caller may supply that are positive integers
ValidIds == {id \in Ids : IsInteger(id) /\ ~LessThan(id, 1)}

Recomputed ==
    \/ last'.op = "set" /\ last'.ret # Undefined
    \/ last'.op = "add"
    \/ /\ last'.op = "delete"
       /\ last'.ret = JsTrue
       /\ GreaterThan(nextId, released'.id)

\* the fast-path test of that run: this.size === this.#nextId - 1
FastPathTaken == nextId.t = "int" /\ Cardinality(DOMAIN map') = nextId.v - 1

UnbrokenRun(K) ==
    /\ \A k \in K : k.t = "int"
    /\ \A k, l \in K : k.v < l.v => \A n \in k.v..l.v : Num(n) \in K

\* C19 as stated: when the recomputation takes the slow path and the keys
\* form one unbroken run, the pointer becomes NaN.
C19_UnbrokenRunGivesNaN ==
    [][ (Recomputed /\ ~FastPathTaken /\ UnbrokenRun(DOMAIN map'))
            => nextId' = NaN ]_vars

\* C19 amended: when the recomputation takes the slow path and the keys form
\* one unbroken run, the scan stops at the largest key and the pointer
\* becomes that key plus 1; it becomes NaN only when there is no key.
C19_UnbrokenRunGivesLastPlusOne ==
    [][ (Recomputed /\ ~FastPathTaken /\ UnbrokenRun(DOMAIN map'))
            => IF DOMAIN map' = {}
               THEN nextId' = NaN
               ELSE /\ nextId'.t = "int"
                    /\ Num(nextId'.v - 1) \in DOMAIN map'
                    /\ \A k \in DOMAIN map' : k.v < nextId'.v ]_vars

C19_Witness ==
    /\ run.from = "fresh"
    /\ run.adds = 2
    /\ last.op = "add"
    /\ Keys = {Num(1), Num(2)}
    /\ nextId = Num(3)

\* C20: the pointer is always a positive integer, and so is every key of
\* the map and every id add returns.
C20_PointerPositiveInteger ==
    /\ nextId.t = "int" /\ nextId.v >= 1
    /\ \A k \in Keys : k.t = "int" /\ k.v >= 1
    /\ last.op = "add" => (last.ret.t = "int" /\ last.ret.v >= 1)

\* C21: set(id, terrain, true) on an occupied id only swaps the terrain
\* stored under id: the keys and the pointer are what they were before the
\* call.
C21_OverrideKeepsKeysAndPointer ==
    [][ \A id \in DOMAIN map : \A t \in Terrains :
          set(id, t, TRUE) =>
            /\ DOMAIN map' = DOMAIN map
            /\ map'[id] = t
            /\ nextId' = nextId ]_vars

(***************************************************************************)
(* Properties of a Terrain, checked under SpecEntity                        *)
(***************************************************************************)
\* C11: the round trip fresh.updateSource(e.toJSON()) completes without
\* error and leaves every attribute of the fresh Terrain equal to that of e.
C11_RoundTripReproducesAttributes ==
    call.op = "roundTrip" =>
        /\ ~call.ret.threw
        /\ call.attrs = Attributes(flags)

\* C12: elevationMinMax(anchorE) returns min = anchorE + offset + rangeBelow
\* and max = anchorE + offset + rangeAbove for the offset and ranges the
\* store holds when it is called, whatever their signs, and returns an
\* inverted band as it is.
C12_ElevationBand ==
    [][ \A anchorE \in Elevations :
          elevationMinMax_Call(anchorE) =>
            /\ call'.ret.min = anchorE + flags["FLAGS.OFFSET"] + flags["FLAGS.RANGE_BELOW"]
            /\ call'.ret.max = anchorE + flags["FLAGS.OFFSET"] + flags["FLAGS.RANGE_ABOVE"] ]_vars

\* An inverted band has been returned for a negative offset that a setter
\* wrote after the Terrain was initialised.
C12_Witness ==
    ~ /\ call.op = "elevationMinMax"
      /\ call.ret.min > call.ret.max
      /\ flags["FLAGS.OFFSET"] < 0
      /\ \E anchorE \in Elevations :
            /\ anchorE < 0
            /\ call.ret = [min |-> anchorE + flags["FLAGS.OFFSET"] + flags["FLAGS.RANGE_BELOW"],
                           max |-> anchorE + flags["FLAGS.OFFSET"] + flags["FLAGS.RANGE_ABOVE"]]

\* C13: when the write of a setter, property or async, completes, the
\* getter of the attribute returns the value that was set.
C13_SetterThenGetter ==
    [][ (setFlag_Fulfil /\ IsSetterCall)
            => Getter(flags', call.attr) = write.value ]_vars

(***************************************************************************)
(* Properties of the import and replace flows, checked under SpecFlows      *)
(***************************************************************************)
\* The caller of the running dialog function has been given its result.
DialogReturned ==
    \/ dialogPc = "done"
    \/ flow = "instance" /\ dialogPc \in {"open", "closed"}

\* C14: a write the store rejects reaches the caller.  A setter whose update
\* was rejected has rejected to its caller; a merge call that returned has
\* applied the document; and the merge of a dialog is never rejected by the
\* store after the dialog function returned to its caller.
C14_RejectionReachesCaller ==
    /\ (IsSetterCall /\ call.stored = "rejected") => call.seen = "rejected"
    /\ (directPc = "returned" /\ flow = "replace") => collection = json[1]
    /\ (directPc = "returned" /\ flow = "import") => collection = pre \cup json[1]
    /\ (directPc = "returned" /\ flow = "instance") => flags = json[1]
    /\ chain = "importRejected" => ~DialogReturned

ConfirmWithoutFile ==
    \/ importFromJSONDialog_Import(<< >>)
    \/ replaceFromJSONDialog_Import(<< >>)
    \/ instanceImportFromJSONDialog_Import(<< >>)

\* C16: in each of the three dialogs, Import without an uploaded file shows
\* the error and starts neither the read of a file nor an import or replace,
\* and from then on, until another call is made, nothing is read and neither
\* the collection nor the effect changes.
C16_NoFileAbortsBeforeMutation ==
    [][ /\ ConfirmWithoutFile =>
              /\ notified'
              /\ chain' = "none"
              /\ json' = << >>
              /\ directPc' = "idle"
              /\ collection' = collection
              /\ flags' = flags
        /\ (notified /\ dialogPc = "closed") =>
              /\ chain' = "none"
              /\ collection' = collection
              /\ flags' = flags ]_vars

\* The per-terrain dialog was confirmed without a file, with effects in the
\* collection and after an earlier import changed the effect.
C16_Witness ==
    ~ /\ notified
      /\ dialogPc = "closed"
      /\ flow = "instance"
      /\ files = << >>
      /\ collection # {}
      /\ flags # InitialFlags

\* C22: in the collection-level import and replace dialogs the terrain list
\* is re-rendered only when the import or replace of the chosen file has
\* settled: once the dialog function has re-rendered and returned, no read
\* or import of that dialog is still pending.
C22_RerenderAfterImport ==
    (flow \in {"import", "replace"} /\ dialogPc = "done") => chain \in Settled

(***************************************************************************)
(* Properties of the replace flows, checked under SpecIO                   *)
(***************************************************************************)
\* C10: replace is one logical unit.  A replace that ends as a success has
\* left exactly the document's effects; the collection is always what it
\* was before the replace or what the document holds; and a rejection of
\* the store is never met by a caller that was told the replace succeeded.
C10_ReplaceAtomicAndReported ==
    /\ directPc = "returned" => collection = json[1]
    /\ (dialogPc = "done" /\ chain = "fulfilled") => collection = files[1]
    /\ directPc \in {"awaiting", "thrown"} => collection = pre
    /\ chain \in {"reading", "importing", "readRejected", "importRejected"}
          => collection = pre
    /\ chain = "importRejected" => dialogPc # "done"

(***************************************************************************)
(* Properties of TerrainSettings, checked under SpecSettings                *)
(***************************************************************************)
\* C17: when the promise of addExpandedFolder(folderId) is fulfilled, the
\* update of the setting has completed and the stored setting contains
\* folderId; when the promise of clearExpandedFolders is fulfilled, the
\* stored setting is empty.
C17_PromiseAwaitsSettingUpdate ==
    /\ (promise.op = "addExpandedFolder" /\ promise.state = "fulfilled")
          => (~settingUpdate.pending /\ Includes(expandedFolders, promise.arg))
    /\ (promise.op = "clearExpandedFolders" /\ promise.state = "fulfilled")
          => (~settingUpdate.pending /\ expandedFolders = << >>)

====
